---- MODULE Spec2Model ----
(***************************************************************************)
(* Model of the markdown-to-Notion converter                               *)
(* (packages/md-to-notion/main/src/main.ts).                               *)
(*                                                                         *)
(* A JavaScript string is a sequence of one-character strings; indices in  *)
(* the string helpers are 0-based, as in the source.                       *)
(***************************************************************************)
EXTENDS Integers, Sequences, FiniteSets, TLC

VARIABLES
    pc,             \* position of the running call
    text,           \* parseInlineStyles: its argument
    segments,       \* parseInlineStyles: the RichText[] it returned
    markdown,       \* parseMarkdown: its argument
    original,       \* history: the document before blank lines and white
                    \* space were added to it
    lines,          \* parseMarkdown: cleanMarkdown.split('\n')
    lineNo,         \* parseMarkdown: the number of the next line of the loop
    blocks,         \* parseMarkdown: the blocks pushed so far
    currentList,    \* parseMarkdown: the items of the open list
    isInList,       \* parseMarkdown: whether a list is open
    listType,       \* parseMarkdown: "bulletList", "numberList" or "null"
    origin,         \* history: origin[k] is the line blocks[k] was made from
    pendingOrigin,  \* history: the lines the items of currentList came from
    args,           \* main: its argument
    response,       \* main: the MainResponse it returned
    converterCalls  \* history: the number of calls of parseMarkdown by main

tokenizerVars == <<text, segments>>

loopVars == <<blocks, currentList, isInList, listType, origin, pendingOrigin>>

parserVars == <<markdown, original, lines, lineNo, loopVars>>

mainVars == <<args, response, converterCalls>>

vars == <<pc, tokenizerVars, parserVars, mainVars>>

(***************************************************************************)
(* Bounds of the model.                                                    *)
(***************************************************************************)
MaxTextLen == 5

MaxLines == 4

MaxBodyTokens == 4

MaxEditedLines == 2

MaxEdits == 3

\* The backtick character (a TLA+ string cannot hold one).
Backtick == "BACKTICK"

\* Characters of the texts handed to parseInlineStyles: the four marker
\* characters and two ordinary ones.
InlineChars == {"*", "_", "~", Backtick, "a", "b"}

\* The value undefined: a missing property, a call that has not returned.
Undefined == [kind |-> "undefined"]

(***************************************************************************)
(* String.prototype helpers, 0-based.                                      *)
(***************************************************************************)
Min(a, b) == IF a < b THEN a ELSE b

\* All strings over chars of length at most n.
StringsUpTo(chars, n) == UNION {[1..k -> chars] : k \in 0..n}

\* s.substr(i, n)
substr(s, i, n) == SubSeq(s, i + 1, Min(i + n, Len(s)))

\* s.slice(from, to) for 0 <= from, 0 <= to
slice(s, from, to) == SubSeq(s, from + 1, Min(to, Len(s)))

\* s.indexOf(p, from): the least k >= from at which p occurs, or -1
indexOf(s, p, from) ==
    LET hits == {k \in from..(Len(s) - Len(p)) : SubSeq(s, k + 1, k + Len(p)) = p}
    IN  IF hits = {} THEN -1 ELSE CHOOSE k \in hits : \A j \in hits : k <= j

\* s.startsWith(p)
startsWith(s, p) == Len(s) >= Len(p) /\ SubSeq(s, 1, Len(p)) = p

\* s.endsWith(p)
endsWith(s, p) == Len(s) >= Len(p) /\ SubSeq(s, Len(s) - Len(p) + 1, Len(s)) = p

\* s.includes(p)
includes(s, p) == indexOf(s, p, 0) # -1

(***************************************************************************)
(* createRichText and parseInlineStyles.                                   *)
(***************************************************************************)
\* The annotations createRichText starts from, and the initial
\* currentAnnotations of parseInlineStyles (which never change).
NoAnnotations ==
    [bold |-> FALSE, italic |-> FALSE, strikethrough |-> FALSE,
     underline |-> FALSE, code |-> FALSE]

\* createRichText losing the annotations it is given (mutant of createRichText).
createRichTextDefaultsOnly(content, annotations) ==
    [type |-> "text", content |-> content,
     annotations |-> NoAnnotations, color |-> "default"]

\* createRichText(content, annotations): the defaults, overridden by the
\* annotations given (a function on some of the annotation names).
createRichText(content, annotations) ==
    [type |-> "text",
     content |-> content,
     annotations |->
        [k \in DOMAIN NoAnnotations |->
            IF k \in DOMAIN annotations THEN annotations[k] ELSE NoAnnotations[k]],
     color |-> "default"]

\* The flush that forgets the pending text (mutant of FlushText).
FlushTextDropped(segs, currentText) == segs

\* The flush without its guard: it pushes a run even for no pending text
\* (mutant of FlushText).
FlushTextUnguarded(segs, currentText) ==
    Append(segs, createRichText(currentText, NoAnnotations))

\* if (currentText) segments.push(createRichText(currentText, ...))
FlushText(segs, currentText) ==
    IF currentText # <<>>
    THEN Append(segs, createRichText(currentText, NoAnnotations))
    ELSE segs

\* The delimited run sliced one character early, so that it keeps the last
\* character of its opening delimiter (mutant of StyledRun).
StyledRunOffByOne(t, i, n, end, flag) ==
    createRichText(slice(t, i + n - 1, end), [NoAnnotations EXCEPT ![flag] = TRUE])

\* One delimiter branch of the loop: the run between the opening delimiter at
\* i (of length n) and its closer at end, with annotation flag set.
StyledRun(t, i, n, end, flag) ==
    createRichText(slice(t, i + n, end), [NoAnnotations EXCEPT ![flag] = TRUE])

\* The italic test failing at a double underscore, which leaves it to the
\* underline branch (mutant of italicAt).
italicAtSingleUnderscore(t, i) ==
    /\ t[i + 1] = "_"
    /\ substr(t, i, 2) # <<"_", "_">>
    /\ indexOf(t, <<"_">>, i + 1) # -1

\* text[i] === '_' && text.indexOf('_', i + 1) !== -1
italicAt(t, i) == t[i + 1] = "_" /\ indexOf(t, <<"_">>, i + 1) # -1

\* The while loop of parseInlineStyles from cursor i, with the pending plain
\* text and the segments pushed so far; then the trailing flush.
RECURSIVE ScanFrom(_, _, _, _)
ScanFrom(t, i, currentText, segs) ==
    IF i >= Len(t) THEN FlushText(segs, currentText)
    ELSE IF substr(t, i, 2) = <<"*", "*">> /\ indexOf(t, <<"*", "*">>, i + 2) # -1
    THEN LET endBold == indexOf(t, <<"*", "*">>, i + 2)
         IN  ScanFrom(t, endBold + 2, <<>>,
                      Append(FlushText(segs, currentText),
                             StyledRun(t, i, 2, endBold, "bold")))
    ELSE IF italicAt(t, i)
    THEN LET endItalic == indexOf(t, <<"_">>, i + 1)
         IN  ScanFrom(t, endItalic + 1, <<>>,
                      Append(FlushText(segs, currentText),
                             StyledRun(t, i, 1, endItalic, "italic")))
    ELSE IF substr(t, i, 2) = <<"_", "_">> /\ indexOf(t, <<"_", "_">>, i + 2) # -1
    THEN LET endUnderline == indexOf(t, <<"_", "_">>, i + 2)
         IN  ScanFrom(t, endUnderline + 2, <<>>,
                      Append(FlushText(segs, currentText),
                             StyledRun(t, i, 2, endUnderline, "underline")))
    ELSE IF substr(t, i, 2) = <<"~", "~">> /\ indexOf(t, <<"~", "~">>, i + 2) # -1
    THEN LET endStrike == indexOf(t, <<"~", "~">>, i + 2)
         IN  ScanFrom(t, endStrike + 2, <<>>,
                      Append(FlushText(segs, currentText),
                             StyledRun(t, i, 2, endStrike, "strikethrough")))
    ELSE IF t[i + 1] = Backtick /\ indexOf(t, <<Backtick>>, i + 1) # -1
    THEN LET endCode == indexOf(t, <<Backtick>>, i + 1)
         IN  ScanFrom(t, endCode + 1, <<>>,
                      Append(FlushText(segs, currentText),
                             StyledRun(t, i, 1, endCode, "code")))
    ELSE ScanFrom(t, i + 1, Append(currentText, t[i + 1]), segs)

parseInlineStyles(t) == ScanFrom(t, 0, <<>>, <<>>)

(***************************************************************************)
(* Block builders.                                                         *)
(***************************************************************************)
\* createBlock(type, content): { object: "block", type, [type]: content }
createBlock(type, content) ==
    ("object" :> "block") @@ ("type" :> type) @@ (type :> content)

createHeading1(t) == createBlock("heading_1", [rich_text |-> parseInlineStyles(t)])

createHeading2(t) == createBlock("heading_2", [rich_text |-> parseInlineStyles(t)])

createHeading3(t) == createBlock("heading_3", [rich_text |-> parseInlineStyles(t)])

\* createVideo(url): no branch of parseMarkdown calls it.
createVideo(url) ==
    createBlock("video", [type |-> "external", external |-> [url |-> url]])

\* createDivider(): no branch of parseMarkdown calls it.
createDivider == createBlock("divider", <<>>)

\* The paragraph builder that makes a divider of a line of three hyphens
\* (mutant of createParagraph).
createParagraphOrDivider(t) ==
    IF t = <<"-", "-", "-">> THEN createDivider
    ELSE createBlock("paragraph", [rich_text |-> parseInlineStyles(t)])

createParagraph(t) == createBlock("paragraph", [rich_text |-> parseInlineStyles(t)])

createQuote(t) == createBlock("quote", [rich_text |-> parseInlineStyles(t)])

\* items.map(item => createBlock("bulleted_list_item", ...))
createBulletList(items) ==
    [k \in 1..Len(items) |->
        createBlock("bulleted_list_item", [rich_text |-> parseInlineStyles(items[k])])]

\* items.map(item => createBlock("numbered_list_item", ...))
createNumberedList(items) ==
    [k \in 1..Len(items) |->
        createBlock("numbered_list_item", [rich_text |-> parseInlineStyles(items[k])])]

createImage(url) ==
    createBlock("image", [type |-> "external", external |-> [url |-> url]])

\* createBookmark taking its arguments in the other order (mutant of
\* createBookmark).
createBookmarkSwapped(url, caption) ==
    createBlock("bookmark",
        [url |-> caption,
         caption |-> IF url # <<>> THEN parseInlineStyles(url) ELSE <<>>])

\* createBookmark(url, caption = ""): an empty caption is not tokenized.
createBookmark(url, caption) ==
    createBlock("bookmark",
        [url |-> url,
         caption |-> IF caption # <<>> THEN parseInlineStyles(caption) ELSE <<>>])

\* createCodeBlock tokenizing the code as the other builders do their text
\* (mutant of createCodeBlock).
createCodeBlockTokenized(code) ==
    createBlock("code",
        [rich_text |-> parseInlineStyles(code), language |-> "javascript"])

\* createCodeBlock(code), the language left to its default "javascript".
createCodeBlock(code) ==
    createBlock("code",
        [rich_text |-> <<createRichText(code, <<>>)>>, language |-> "javascript"])

\* this.blockConverters[listType].call(this, currentList), for the two list
\* types the loop ever holds.
blockConverters(type, items) ==
    IF type = "bulletList" THEN createBulletList(items) ELSE createNumberedList(items)

(***************************************************************************)
(* Character classes and the regular expressions of parseMarkdown.         *)
(***************************************************************************)
LF == "\n"

CR == "\r"

\* \s and String.prototype.trim: the white space characters of the model.
WhiteSpace == {" ", "\t", LF, CR}

\* \d
Digits == {"0", "1", "2", "3", "4", "5", "6", "7", "8", "9"}

\* The characters "." of a regular expression does not match.
LineTerminators == {LF, CR}

\* s.trim()
RECURSIVE trimStart(_)
trimStart(s) ==
    IF s # <<>> /\ Head(s) \in WhiteSpace THEN trimStart(Tail(s)) ELSE s

RECURSIVE trimEnd(_)
trimEnd(s) ==
    IF s # <<>> /\ s[Len(s)] \in WhiteSpace
    THEN trimEnd(SubSeq(s, 1, Len(s) - 1))
    ELSE s

\* The trim that leaves leading white space (mutant of trim).
trimEndOnly(s) == trimEnd(s)

trim(s) == trimEnd(trimStart(s))

\* s.replace(/\r\n/g, '\n')
RECURSIVE normalizeLineEndings(_)
normalizeLineEndings(s) ==
    IF s = <<>> THEN <<>>
    ELSE IF startsWith(s, <<CR, LF>>)
    THEN <<LF>> \o normalizeLineEndings(SubSeq(s, 3, Len(s)))
    ELSE <<Head(s)>> \o normalizeLineEndings(Tail(s))

\* The end (a 1-based index of s) of the match of /\n\s*\n/ that starts at the
\* line feed s[k], or 0: \s* is greedy, so the match ends at the last line
\* feed of the white space that follows s[k].
blankMatchEnd(s, k) ==
    LET ends == {j \in (k + 1)..Len(s) :
                    /\ s[j] = LF
                    /\ \A m \in (k + 1)..j : s[m] \in WhiteSpace}
    IN  IF ends = {} THEN 0 ELSE CHOOSE j \in ends : \A m \in ends : m <= j

\* s.replace(/\n\s*\n/g, '\n'), scanning from the 1-based index k
RECURSIVE removeEmptyLinesFrom(_, _)
removeEmptyLinesFrom(s, k) ==
    IF k > Len(s) THEN <<>>
    ELSE IF s[k] = LF /\ blankMatchEnd(s, k) # 0
    THEN <<LF>> \o removeEmptyLinesFrom(s, blankMatchEnd(s, k) + 1)
    ELSE <<s[k]>> \o removeEmptyLinesFrom(s, k + 1)

removeEmptyLines(s) == removeEmptyLinesFrom(s, 1)

\* s.split('\n'): always at least one piece, the empty string for ''.
RECURSIVE split(_)
split(s) ==
    LET nl == indexOf(s, <<LF>>, 0)
    IN  IF nl = -1 THEN <<s>>
        ELSE <<slice(s, 0, nl)>> \o split(SubSeq(s, nl + 2, Len(s)))

\* The length of the match of /^\d+\.\s/ in the line, or 0.
numberPrefixLength(line) ==
    LET ok == {n \in 3..Len(line) :
                  /\ \A k \in 1..(n - 2) : line[k] \in Digits
                  /\ line[n - 1] = "."
                  /\ line[n] \in WhiteSpace}
    IN  IF ok = {} THEN 0 ELSE CHOOSE n \in ok : TRUE

\* A "." that matches line terminators too (mutant of dotSpans).
dotSpansLineTerminators(s, from, to) == TRUE

\* No character of s between the 0-based positions from (included) and to
\* (excluded) is a line terminator: ".*?" can span them.
dotSpans(s, from, to) == \A k \in (from + 1)..to : s[k] \notin LineTerminators

NoMatch == [matched |-> FALSE]

\* line.match(/\((.*?)\)/): the leftmost "(" with a ")" after it on the same
\* line; the capture runs to the first such ")".
matchParens(line) ==
    LET opens == {p \in 0..(Len(line) - 1) :
                     /\ line[p + 1] = "("
                     /\ indexOf(line, <<")">>, p + 1) # -1
                     /\ dotSpans(line, p + 1, indexOf(line, <<")">>, p + 1))}
    IN  IF opens = {} THEN NoMatch
        ELSE LET p == CHOOSE q \in opens : \A r \in opens : q <= r
             IN  [matched |-> TRUE,
                  url |-> slice(line, p + 1, indexOf(line, <<")">>, p + 1))]

\* The 0-based positions q of a "](" after the "[" at b from which the rest
\* of /\[(.*?)\]\((.*?)\)/ matches.
linkMiddles(line, b) ==
    {q \in (b + 1)..(Len(line) - 2) :
        /\ line[q + 1] = "]"
        /\ line[q + 2] = "("
        /\ dotSpans(line, b + 1, q)
        /\ indexOf(line, <<")">>, q + 2) # -1
        /\ dotSpans(line, q + 2, indexOf(line, <<")">>, q + 2))}

\* line.match(/\[(.*?)\]\((.*?)\)/): the leftmost "[" from which the pattern
\* matches, both captures as short as they can be.
matchLink(line) ==
    LET starts == {b \in 0..(Len(line) - 1) :
                      line[b + 1] = "[" /\ linkMiddles(line, b) # {}}
    IN  IF starts = {} THEN NoMatch
        ELSE LET b == CHOOSE x \in starts : \A y \in starts : x <= y
                 q == CHOOSE x \in linkMiddles(line, b) :
                          \A y \in linkMiddles(line, b) : x <= y
             IN  [matched |-> TRUE,
                  text |-> slice(line, b + 1, q),
                  url |-> slice(line, q + 2, indexOf(line, <<")">>, q + 2))]

(***************************************************************************)
(* parseMarkdown: the preprocessing and the body of its loop.              *)
(*                                                                         *)
(* The loop state is the record st of blocks, currentList, isInList and    *)
(* listType, with two history fields the properties read: origin[k] is     *)
(* the number of the line blocks[k] was made from, and pendingOrigin[k]    *)
(* that of the line currentList[k] was taken from.                         *)
(***************************************************************************)
\* cleanMarkdown.split('\n')
cleanLines(md) == split(trim(removeEmptyLines(normalizeLineEndings(md))))

\* The state before the loop: no block, no open list, listType null.
loopStart ==
    [blocks |-> <<>>, currentList |-> <<>>, isInList |-> FALSE,
     listType |-> "null", origin |-> <<>>, pendingOrigin |-> <<>>]

\* The flush that leaves the flushed items on currentList (mutant of
\* flushList).
flushListKeepsItems(st) ==
    IF st.isInList
    THEN [st EXCEPT !.blocks = @ \o blockConverters(st.listType, st.currentList),
                    !.origin = @ \o st.pendingOrigin,
                    !.isInList = FALSE]
    ELSE st

\* if (isInList) { blocks.push(...converter(currentList)); currentList = [];
\*                 isInList = false; }
flushList(st) ==
    IF st.isInList
    THEN [st EXCEPT !.blocks = @ \o blockConverters(st.listType, st.currentList),
                    !.origin = @ \o st.pendingOrigin,
                    !.currentList = <<>>,
                    !.pendingOrigin = <<>>,
                    !.isInList = FALSE]
    ELSE st

\* The block pushed before the open list is flushed (mutant of emit).
emitBeforeFlush(st, block, n) ==
    flushList([st EXCEPT !.blocks = Append(@, block), !.origin = Append(@, n)])

\* A branch that makes one block of line n: the open list is flushed, then
\* the block is pushed.
emit(st, block, n) ==
    LET flushed == flushList(st)
    IN  [flushed EXCEPT !.blocks = Append(@, block), !.origin = Append(@, n)]

\* The list branch that opens the list of its type without flushing the
\* open list of the other type (mutant of addToList).
addToListWithoutFlush(st, type, item, n) ==
    [st EXCEPT !.isInList = TRUE,
               !.listType = type,
               !.currentList = Append(@, item),
               !.pendingOrigin = Append(@, n)]

\* A list branch: a list of another type, if open, is flushed; the list of
\* this type is opened if it is not; the item is pushed on currentList.
addToList(st, type, item, n) ==
    LET opened == IF ~st.isInList \/ st.listType # type
                  THEN [flushList(st) EXCEPT !.isInList = TRUE, !.listType = type]
                  ELSE st
    IN  [opened EXCEPT !.currentList = Append(@, item),
                       !.pendingOrigin = Append(@, n)]

\* The chain without its code branch: a line that starts with a backtick
\* falls through to the later branches (mutant of branchOf).
branchOfWithoutCode(line) ==
    IF startsWith(line, <<"#", " ">>) THEN "h1"
    ELSE IF startsWith(line, <<"#", "#", " ">>) THEN "h2"
    ELSE IF startsWith(line, <<"#", "#", "#", " ">>) THEN "h3"
    ELSE IF startsWith(line, <<"*", " ">>) \/ startsWith(line, <<"-", " ">>)
    THEN "bulletList"
    ELSE IF numberPrefixLength(line) # 0 THEN "numberList"
    ELSE IF startsWith(line, <<">", " ">>) THEN "quote"
    ELSE IF /\ startsWith(line, <<"!", "[">>)
            /\ includes(line, <<"]", "(">>)
            /\ endsWith(line, <<")">>)
    THEN "image"
    ELSE IF /\ startsWith(line, <<"[">>)
            /\ includes(line, <<"]", "(">>)
            /\ endsWith(line, <<")">>)
    THEN "bookmark"
    ELSE "paragraph"

\* The branch of the if / else-if chain a trimmed, non-empty line takes.
branchOf(line) ==
    IF startsWith(line, <<"#", " ">>) THEN "h1"
    ELSE IF startsWith(line, <<"#", "#", " ">>) THEN "h2"
    ELSE IF startsWith(line, <<"#", "#", "#", " ">>) THEN "h3"
    ELSE IF startsWith(line, <<"*", " ">>) \/ startsWith(line, <<"-", " ">>)
    THEN "bulletList"
    ELSE IF numberPrefixLength(line) # 0 THEN "numberList"
    ELSE IF startsWith(line, <<Backtick>>) THEN "code"
    ELSE IF startsWith(line, <<">", " ">>) THEN "quote"
    ELSE IF /\ startsWith(line, <<"!", "[">>)
            /\ includes(line, <<"]", "(">>)
            /\ endsWith(line, <<")">>)
    THEN "image"
    ELSE IF /\ startsWith(line, <<"[">>)
            /\ includes(line, <<"]", "(">>)
            /\ endsWith(line, <<")">>)
    THEN "bookmark"
    ELSE "paragraph"

\* One iteration of the for loop, on line number n of lines.
processLine(st, rawLine, n) ==
    LET line == trim(rawLine)
        branch == branchOf(line)
    IN  IF line = <<>> THEN st
        ELSE CASE branch = "h1" -> emit(st, createHeading1(slice(line, 2, Len(line))), n)
               [] branch = "h2" -> emit(st, createHeading2(slice(line, 3, Len(line))), n)
               [] branch = "h3" -> emit(st, createHeading3(slice(line, 4, Len(line))), n)
               [] branch = "bulletList" ->
                    addToList(st, "bulletList", slice(line, 2, Len(line)), n)
               [] branch = "numberList" ->
                    addToList(st, "numberList",
                              slice(line, numberPrefixLength(line), Len(line)), n)
               [] branch = "code" ->
                    emit(st, createCodeBlock(slice(line, 1, Len(line) - 1)), n)
               [] branch = "quote" -> emit(st, createQuote(slice(line, 2, Len(line))), n)
               [] branch = "image" ->
                    IF matchParens(line).matched
                    THEN emit(st, createImage(matchParens(line).url), n)
                    ELSE flushList(st)
               [] branch = "bookmark" ->
                    IF matchLink(line).matched
                    THEN emit(st, createBookmark(matchLink(line).url,
                                                 matchLink(line).text), n)
                    ELSE flushList(st)
               [] OTHER -> emit(st, createParagraph(line), n)

\* if (isInList && currentList.length > 0) blocks.push(...)
finalFlush(st) ==
    IF st.isInList /\ Len(st.currentList) > 0
    THEN [st EXCEPT !.blocks = @ \o blockConverters(st.listType, st.currentList),
                    !.origin = @ \o st.pendingOrigin]
    ELSE st

\* The loop over lines[n..], from the state st.
RECURSIVE loopFrom(_, _, _)
loopFrom(st, ls, n) ==
    IF n > Len(ls) THEN st ELSE loopFrom(processLine(st, ls[n], n), ls, n + 1)

\* parseMarkdown(markdown): the blocks it returns.
parseMarkdown(md) == finalFlush(loopFrom(loopStart, cleanLines(md), 1)).blocks

(***************************************************************************)
(* parseMarkdown as a state machine: the preprocessing, one step per line  *)
(* of the loop, the flush after the loop.                                  *)
(***************************************************************************)
\* The loop state the variables hold.
loopState ==
    [blocks |-> blocks, currentList |-> currentList, isInList |-> isInList,
     listType |-> listType, origin |-> origin, pendingOrigin |-> pendingOrigin]

\* const blocks = []; let currentList = []; let isInList = false;
\* let listType = null;
LoopAtStart ==
    /\ blocks = loopStart.blocks
    /\ currentList = loopStart.currentList
    /\ isInList = loopStart.isInList
    /\ listType = loopStart.listType
    /\ origin = loopStart.origin
    /\ pendingOrigin = loopStart.pendingOrigin

\* The variables of parseMarkdown when it is not the function under study.
ParserIdle ==
    /\ markdown = <<>>
    /\ original = <<>>
    /\ lines = <<>>
    /\ lineNo = 0
    /\ LoopAtStart

\* The variables of parseInlineStyles when it is not the function under study.
TokenizerIdle ==
    /\ text = <<>>
    /\ segments = <<>>

\* The variables of main when it is not the function under study.
MainIdle ==
    /\ args = Undefined
    /\ response = Undefined
    /\ converterCalls = 0

\* The loop variables take the fields of st.
SetLoopState(st) ==
    /\ blocks' = st.blocks
    /\ currentList' = st.currentList
    /\ isInList' = st.isInList
    /\ listType' = st.listType
    /\ origin' = st.origin
    /\ pendingOrigin' = st.pendingOrigin

\* const lines = cleanMarkdown.split('\n')
Clean ==
    /\ pc = "clean"
    /\ lines' = cleanLines(markdown)
    /\ lineNo' = 1
    /\ pc' = "loop"
    /\ UNCHANGED <<markdown, original, loopVars, tokenizerVars, mainVars>>

\* for (let line of lines) { ... }: one iteration
NextLine ==
    /\ pc = "loop"
    /\ lineNo <= Len(lines)
    /\ SetLoopState(processLine(loopState, lines[lineNo], lineNo))
    /\ lineNo' = lineNo + 1
    /\ UNCHANGED <<pc, markdown, original, lines, tokenizerVars, mainVars>>

\* The flush of the remaining list items, and return blocks.
Return ==
    /\ pc = "loop"
    /\ lineNo > Len(lines)
    /\ SetLoopState(finalFlush(loopState))
    /\ pc' = "returned"
    /\ UNCHANGED <<markdown, original, lines, lineNo, tokenizerVars, mainVars>>

Next == Clean \/ NextLine \/ Return

\* s1, a line feed, s2, ...
RECURSIVE joinLines(_)
joinLines(ls) ==
    IF ls = <<>> THEN <<>>
    ELSE IF Len(ls) = 1 THEN ls[1]
    ELSE ls[1] \o <<LF>> \o joinLines(Tail(ls))

\* The lines the documents are made of: a heading, bullets with either
\* marker, numbered items, a paragraph, a link line and a link line whose
\* caption holds a carriage return.
SampleLines ==
    { <<"#", " ", "a">>,
      <<"-", " ", "a">>,
      <<"*", " ", "_", "b", "_">>,
      <<"1", ".", " ", "a">>,
      <<"2", ".", " ", "b">>,
      <<"c">>,
      <<"[", "a", "]", "(", "b", ")">>,
      <<"[", CR, "]", "(", "b", ")">> }

\* The documents: up to MaxLines sample lines, joined by line feeds.
Documents ==
    {joinLines(ls) : ls \in UNION {[1..k -> SampleLines] : k \in 0..MaxLines}}

Init ==
    /\ pc = "clean"
    /\ markdown \in Documents
    /\ original = markdown
    /\ lines = <<>>
    /\ lineNo = 0
    /\ LoopAtStart
    /\ TokenizerIdle
    /\ MainIdle

Spec == Init /\ [][Next]_vars

(***************************************************************************)
(* parseMarkdown on one line: a line marker (or none, or nearly one)       *)
(* followed by up to MaxBodyTokens pieces of text.                         *)
(***************************************************************************)
\* Line openings: those of the ten branches, and some that just miss one.
LinePrefixes ==
    { <<>>,
      <<"#", " ">>, <<"#", "#", " ">>, <<"#", "#", "#", " ">>, <<"#">>,
      <<"*", " ">>, <<"-", " ">>, <<"-", "-", "-">>,
      <<"1", ".", " ">>, <<"1", "2", ".", " ">>, <<"1", ".">>,
      <<Backtick>>,
      <<">", " ">>,
      <<"!", "[">>,
      <<"[">> }

\* The pieces a line body is made of.
BodyTokens == { <<"a">>, <<"]", "(">>, <<")">>, <<"]">>, <<CR>>, <<Backtick>> }

\* The pieces, concatenated.
RECURSIVE concat(_)
concat(ss) == IF ss = <<>> THEN <<>> ELSE Head(ss) \o concat(Tail(ss))

LineBodies == {concat(ts) : ts \in UNION {[1..k -> BodyTokens] : k \in 0..MaxBodyTokens}}

SingleLines == {prefix \o body : prefix \in LinePrefixes, body \in LineBodies}

InitLine ==
    /\ pc = "clean"
    /\ markdown \in SingleLines
    /\ original = markdown
    /\ lines = <<>>
    /\ lineNo = 0
    /\ LoopAtStart
    /\ TokenizerIdle
    /\ MainIdle

SpecLine == InitLine /\ [][Next]_vars

(***************************************************************************)
(* parseMarkdown on a document to which empty lines, carriage returns      *)
(* before line feeds and white space around lines have been added.         *)
(***************************************************************************)
\* The lines of the documents that are edited.
EditedSampleLines ==
    { <<"#", " ", "a">>,
      <<"-", " ", "a">>,
      <<"*", " ", "b">>,
      <<"1", ".", " ", "a">> }

EditedDocuments ==
    {joinLines(ls) : ls \in UNION {[1..k -> EditedSampleLines] : k \in 0..MaxEditedLines}}

\* s with the character c put in before its 0-based position p.
insertAt(s, p, c) == SubSeq(s, 1, p) \o <<c>> \o SubSeq(s, p + 1, Len(s))

\* The 0-based positions of s where a line starts or ends.
LineBoundaries(s) ==
    {p \in 0..Len(s) :
        \/ p = 0
        \/ p = Len(s)
        \/ s[p] = LF
        \/ s[p + 1] = LF
        \/ (p + 2 <= Len(s) /\ s[p + 1] = CR /\ s[p + 2] = LF)}

InitEdited ==
    /\ pc = "edit"
    /\ markdown \in EditedDocuments
    /\ original = markdown
    /\ lines = <<>>
    /\ lineNo = 0
    /\ LoopAtStart
    /\ TokenizerIdle
    /\ MainIdle

\* Some more of the document may be edited.
CanEdit == pc = "edit" /\ Len(markdown) < Len(original) + MaxEdits

\* An empty line is put in before or after a line.
InsertEmptyLine ==
    /\ CanEdit
    /\ \E p \in LineBoundaries(markdown) : markdown' = insertAt(markdown, p, LF)
    /\ UNCHANGED <<pc, original, lines, lineNo, loopVars, tokenizerVars, mainVars>>

\* A space is put in at the start or at the end of a line (of an empty line
\* too, which makes it a white-space-only line).
PadLine ==
    /\ CanEdit
    /\ \E p \in LineBoundaries(markdown) : markdown' = insertAt(markdown, p, " ")
    /\ UNCHANGED <<pc, original, lines, lineNo, loopVars, tokenizerVars, mainVars>>

\* A line feed becomes a carriage return and a line feed.
UseCRLF ==
    /\ CanEdit
    /\ \E p \in 0..(Len(markdown) - 1) :
          /\ markdown[p + 1] = LF
          /\ markdown' = insertAt(markdown, p, CR)
    /\ UNCHANGED <<pc, original, lines, lineNo, loopVars, tokenizerVars, mainVars>>

\* parseMarkdown(markdown), in one step.
Parse ==
    /\ pc = "edit"
    /\ blocks' = parseMarkdown(markdown)
    /\ pc' = "returned"
    /\ UNCHANGED <<markdown, original, lines, lineNo, currentList, isInList,
                   listType, origin, pendingOrigin, tokenizerVars, mainVars>>

NextEdited == InsertEmptyLine \/ PadLine \/ UseCRLF \/ Parse

SpecEdited == InitEdited /\ [][NextEdited]_vars

(***************************************************************************)
(* The tokenizer on its own: parseInlineStyles applied to a bounded text.  *)
(***************************************************************************)
InitInline ==
    /\ pc = "call"
    /\ text \in StringsUpTo(InlineChars, MaxTextLen)
    /\ segments = <<>>
    /\ ParserIdle
    /\ MainIdle

Tokenize ==
    /\ pc = "call"
    /\ segments' = parseInlineStyles(text)
    /\ pc' = "returned"
    /\ UNCHANGED <<text, parserVars, mainVars>>

NextInline == Tokenize

SpecInline == InitInline /\ [][NextInline]_vars

(***************************************************************************)
(* main: the OpenWhisk entry point.                                        *)
(*                                                                         *)
(* A property of args is Undefined when it is missing, a string            *)
(* [kind |-> "string", value |-> s] or a number                            *)
(* [kind |-> "number", number |-> n] (args comes from a JSON body, so md   *)
(* may hold something else than a string); __ow_headers is Undefined or an *)
(* object [kind |-> "object", fields |-> f], f a function from header      *)
(* names to strings.                                                       *)
(***************************************************************************)
String(s) == [kind |-> "string", value |-> s]

Number(n) == [kind |-> "number", number |-> n]

Object(f) == [kind |-> "object", fields |-> f]

\* ToBoolean: undefined, '' and 0 are falsy.
truthy(v) ==
    CASE v.kind = "undefined" -> FALSE
      [] v.kind = "string" -> v.value # <<>>
      [] v.kind = "number" -> v.number # 0
      [] OTHER -> TRUE

\* The lower-case letter of an upper-case one.
LowerCase ==
    ("P" :> "p") @@ ("O" :> "o") @@ ("S" :> "s") @@ ("T" :> "t") @@
    ("G" :> "g") @@ ("E" :> "e") @@ ("J" :> "j") @@ ("N" :> "n") @@
    ("A" :> "a") @@ ("L" :> "l") @@ ("I" :> "i") @@ ("C" :> "c")

\* s.toLowerCase()
toLowerCase(s) ==
    [k \in DOMAIN s |-> IF s[k] \in DOMAIN LowerCase THEN LowerCase[s[k]] ELSE s[k]]

\* args.__ow_headers?.['content-type'] || ''
contentTypeOf(a) ==
    IF /\ a.__ow_headers.kind = "object"
       /\ "content-type" \in DOMAIN a.__ow_headers.fields
       /\ truthy(a.__ow_headers.fields["content-type"])
    THEN a.__ow_headers.fields["content-type"].value
    ELSE <<>>

ApplicationJson ==
    <<"a", "p", "p", "l", "i", "c", "a", "t", "i", "o", "n", "/", "j", "s", "o", "n">>

\* args.__ow_method && args.__ow_method.toLowerCase() !== 'post'
methodNotAllowed(a) ==
    /\ truthy(a.__ow_method)
    /\ toLowerCase(a.__ow_method.value) # <<"p", "o", "s", "t">>

\* contentType && !contentType.includes('application/json')
unsupportedMediaType(a) ==
    /\ contentTypeOf(a) # <<>>
    /\ ~includes(contentTypeOf(a), ApplicationJson)

\* !args.md
noMarkdown(a) == ~truthy(a.md)

JsonHeaders == "Content-Type" :> "application/json"

\* The response of a rejection: an error in the body, a status code.
errorResponse(status, error, headers) ==
    [body |-> [error |-> error], statusCode |-> status, headers |-> headers]

Response405 ==
    errorResponse(405,
        "Method not allowed. Only POST requests are supported. With a body containing markdown in a \"md\" field. example: {\"md\": \"## Hello World\"}",
        JsonHeaders @@ ("Allow" :> "POST"))

Response415 ==
    errorResponse(415,
        "Unsupported Media Type. Please send request with application/json content type. With a body containing markdown in a \"md\" field. example: {\"md\": \"## Hello World\"}",
        JsonHeaders)

Response400 ==
    errorResponse(400,
        "Bad Request: No markdown content provided in the request body. With a body containing markdown in a \"md\" field. example: {\"md\": \"## Hello World\"}",
        JsonHeaders)

\* The catch clause: parseMarkdown threw, which it does on the first call
\* of a string method when md is not a string.
Response500 ==
    errorResponse(500,
        "Internal Server Error: markdown.replace is not a function",
        JsonHeaders)

Response200(children) ==
    [body |-> [children |-> children], statusCode |-> 200, headers |-> JsonHeaders]

\* The try block: the call of parseMarkdown and the response it leads to.
convert(a) ==
    IF a.md.kind = "string"
    THEN [response |-> Response200(parseMarkdown(a.md.value)), converterCalls |-> 1]
    ELSE [response |-> Response500, converterCalls |-> 1]

\* main with the content type tested before the method (mutant of main).
mainContentTypeFirst(a) ==
    IF unsupportedMediaType(a) THEN [response |-> Response415, converterCalls |-> 0]
    ELSE IF methodNotAllowed(a) THEN [response |-> Response405, converterCalls |-> 0]
    ELSE IF noMarkdown(a) THEN [response |-> Response400, converterCalls |-> 0]
    ELSE convert(a)

\* main(args): the response, and the number of calls of parseMarkdown made.
main(a) ==
    IF methodNotAllowed(a) THEN [response |-> Response405, converterCalls |-> 0]
    ELSE IF unsupportedMediaType(a) THEN [response |-> Response415, converterCalls |-> 0]
    ELSE IF noMarkdown(a) THEN [response |-> Response400, converterCalls |-> 0]
    ELSE convert(a)

\* main returns what main(args) gives.
Respond ==
    /\ response' = main(args).response
    /\ converterCalls' = converterCalls + main(args).converterCalls
    /\ pc' = "returned"
    /\ UNCHANGED <<args, parserVars, tokenizerVars>>

\* return { ..., statusCode: 405, ... }
MethodNotAllowed ==
    /\ pc = "main"
    /\ methodNotAllowed(args)
    /\ Respond

\* return { ..., statusCode: 415, ... }
UnsupportedMediaType ==
    /\ pc = "main"
    /\ ~methodNotAllowed(args)
    /\ unsupportedMediaType(args)
    /\ Respond

\* return { ..., statusCode: 400, ... }
BadRequest ==
    /\ pc = "main"
    /\ ~methodNotAllowed(args)
    /\ ~unsupportedMediaType(args)
    /\ noMarkdown(args)
    /\ Respond

\* return { body: { children: blocks }, statusCode: 200, ... }
Converted ==
    /\ pc = "main"
    /\ ~methodNotAllowed(args)
    /\ ~unsupportedMediaType(args)
    /\ ~noMarkdown(args)
    /\ args.md.kind = "string"
    /\ Respond

\* catch (error) { return { ..., statusCode: 500, ... } }
InternalServerError ==
    /\ pc = "main"
    /\ ~methodNotAllowed(args)
    /\ ~unsupportedMediaType(args)
    /\ ~noMarkdown(args)
    /\ args.md.kind # "string"
    /\ Respond

NextMain ==
    \/ MethodNotAllowed
    \/ UnsupportedMediaType
    \/ BadRequest
    \/ Converted
    \/ InternalServerError

\* The values of __ow_method: none, the empty string, POST in three
\* spellings, GET in two.
Methods ==
    { Undefined, String(<<>>),
      String(<<"p", "o", "s", "t">>), String(<<"P", "O", "S", "T">>),
      String(<<"P", "o", "s", "t">>),
      String(<<"g", "e", "t">>), String(<<"G", "E", "T">>) }

\* The values of the content-type header.
ContentTypes ==
    { <<>>,
      ApplicationJson,
      ApplicationJson \o <<";", " ", "c", "h", "a", "r", "s", "e", "t", "=",
                           "u", "t", "f", "-", "8">>,
      <<"t", "e", "x", "t", "/", "p", "l", "a", "i", "n">>,
      <<"A", "P", "P", "L", "I", "C", "A", "T", "I", "O", "N", "/",
        "J", "S", "O", "N">> }

\* The values of __ow_headers: none, no content-type header, one of each
\* value.
Headers ==
    { Undefined, Object(<<>>) }
        \cup {Object("content-type" :> String(c)) : c \in ContentTypes}

\* The values of md: none, a number, the empty string, a document.
Markdowns ==
    { Undefined, Number(0), Number(5) } \cup {String(d) : d \in EditedDocuments}

Requests == [__ow_method : Methods, __ow_headers : Headers, md : Markdowns]

InitMain ==
    /\ pc = "main"
    /\ args \in Requests
    /\ response = Undefined
    /\ converterCalls = 0
    /\ ParserIdle
    /\ TokenizerIdle

SpecMain == InitMain /\ [][NextMain]_vars

(***************************************************************************)
(* Properties of parseInlineStyles.                                        *)
(***************************************************************************)
StyleFlags == DOMAIN NoAnnotations

\* The delimiter that produces a run with this annotation.
DelimiterOf(flag) ==
    CASE flag = "bold" -> <<"*", "*">>
      [] flag = "italic" -> <<"_">>
      [] flag = "underline" -> <<"_", "_">>
      [] flag = "strikethrough" -> <<"~", "~">>
      [] flag = "code" -> <<Backtick>>

\* The delimiter around a run: that of its set annotation, none for a plain run.
DelimiterAround(run) ==
    IF \E f \in StyleFlags : run.annotations[f]
    THEN DelimiterOf(CHOOSE f \in StyleFlags : run.annotations[f])
    ELSE <<>>

\* The texts of the runs, concatenated.
RECURSIVE PlainText(_)
PlainText(runs) ==
    IF runs = <<>> THEN <<>> ELSE Head(runs).content \o PlainText(Tail(runs))

\* The texts of the runs, concatenated, each styled run between its delimiters.
RECURSIVE WithDelimiters(_)
WithDelimiters(runs) ==
    IF runs = <<>> THEN <<>>
    ELSE DelimiterAround(Head(runs)) \o Head(runs).content
            \o DelimiterAround(Head(runs)) \o WithDelimiters(Tail(runs))

\* A run with exactly the given annotations true.
RunWith(content, flags) ==
    [type |-> "text", content |-> content,
     annotations |-> [f \in StyleFlags |-> f \in flags], color |-> "default"]

MarkerChars == {"*", "_", "~", Backtick}

\* t is s between two copies of the delimiter d, s non-empty and marker-free.
Wrapped(t, d) ==
    /\ Len(t) > 2 * Len(d)
    /\ startsWith(t, d)
    /\ endsWith(t, d)
    /\ \A k \in (Len(d) + 1)..(Len(t) - Len(d)) : t[k] \notin MarkerChars

\* Some position of t holds an opening marker with a closing marker after it.
HasDelimiterPair(t) ==
    \E i \in 0..(Len(t) - 1) :
        \/ substr(t, i, 2) = <<"*", "*">> /\ indexOf(t, <<"*", "*">>, i + 2) # -1
        \/ t[i + 1] = "_" /\ indexOf(t, <<"_">>, i + 1) # -1
        \/ substr(t, i, 2) = <<"~", "~">> /\ indexOf(t, <<"~", "~">>, i + 2) # -1
        \/ t[i + 1] = Backtick /\ indexOf(t, <<Backtick>>, i + 1) # -1

\* C4: putting the delimiter pair of every styled run back around its text
\* and concatenating the runs in order gives the input text again, so the
\* concatenated run texts are the input with exactly the characters of the
\* matched delimiter pairs removed, nothing else dropped, doubled or moved.
C4_RunsAreTextMinusDelimiters ==
    pc = "returned" => WithDelimiters(segments) = text

\* C4 witness: a text with plain characters around a matched pair and an
\* unmatched marker, which stays.
C4_Witness ==
    /\ pc = "returned"
    /\ text = <<"a", "_", "b", "_", "*">>
    /\ PlainText(segments) = <<"a", "b", "*">>

\* C5: a marker-free non-empty s between '**', '_', '~~' or a pair of
\* backticks yields exactly one run, with text s, only the annotation of that
\* delimiter true and color "default".
C5_WrappedTextIsOneStyledRun ==
    pc = "returned" =>
        \A f \in {"bold", "italic", "strikethrough", "code"} :
            Wrapped(text, DelimiterOf(f)) =>
                segments = <<RunWith(SubSeq(text, Len(DelimiterOf(f)) + 1,
                                            Len(text) - Len(DelimiterOf(f))), {f})>>

\* C5 witness: '~~ab~~' is out of the smallest bound, '**a**' is not.
C5_Witness ==
    /\ pc = "returned"
    /\ text = <<"*", "*", "a", "*", "*">>
    /\ segments = <<RunWith(<<"a">>, {"bold"})>>

\* C6: a non-empty text without any opening marker that has a closer is
\* returned as one plain run holding the whole text.
C6_UnclosedMarkersStayPlain ==
    (pc = "returned" /\ text # <<>> /\ ~HasDelimiterPair(text)) =>
        segments = <<RunWith(text, {})>>

\* C6 witness: '**a_b' has two openers and no closer.
C6_Witness ==
    /\ pc = "returned"
    /\ text = <<"*", "*", "a", "_", "b">>
    /\ segments = <<RunWith(text, {})>>

\* C7 as stated: a non-empty sequence for a non-empty input, and exactly one
\* run with empty text for the empty string.
C7_AsStated ==
    pc = "returned" =>
        /\ text # <<>> => segments # <<>>
        /\ text = <<>> => Len(segments) = 1 /\ segments[1].content = <<>>

\* C7 amended: a non-empty sequence for a non-empty input, and the empty
\* sequence for the empty string.
C7_EmptyTextGivesNoRun ==
    pc = "returned" =>
        /\ text # <<>> => segments # <<>>
        /\ text = <<>> => segments = <<>>

\* C7 witness: the empty string was tokenized.
C7_Witness == pc = "returned" /\ text = <<>> /\ Len(segments) = 0

(***************************************************************************)
(* Properties of parseMarkdown.                                            *)
(***************************************************************************)
\* The line the loop classifies as its n-th.
LineAt(n) == trim(lines[n])

IsBulletLine(l) == startsWith(l, <<"*", " ">>) \/ startsWith(l, <<"-", " ">>)

IsNumberLine(l) == numberPrefixLength(l) # 0

IsListLine(l) == IsBulletLine(l) \/ IsNumberLine(l)

\* Two list lines of the same kind.
SameListKind(l1, l2) ==
    \/ IsBulletLine(l1) /\ IsBulletLine(l2)
    \/ IsNumberLine(l1) /\ IsNumberLine(l2)

\* The list line without its marker.
Remainder(l) ==
    IF IsBulletLine(l) THEN SubSeq(l, 3, Len(l))
    ELSE SubSeq(l, numberPrefixLength(l) + 1, Len(l))

\* The list-item block of a list line.
ListItemOf(l) ==
    createBlock(IF IsBulletLine(l) THEN "bulleted_list_item" ELSE "numbered_list_item",
                [rich_text |-> parseInlineStyles(Remainder(l))])

\* The places in blocks of the blocks made from line n.
PlacesOf(n) == {k \in DOMAIN blocks : origin[k] = n}

\* The place of the one block of line n.
PlaceOf(n) == CHOOSE k \in PlacesOf(n) : TRUE

\* An image or link line its regular expression does not match: the loop
\* continues without a block.
IsDropped(l) ==
    \/ branchOf(l) = "image" /\ ~matchParens(l).matched
    \/ branchOf(l) = "bookmark" /\ ~matchLink(l).matched

\* C1: the blocks are in the order of the lines they were made from, each
\* the block its line gives on its own; the items still waiting on
\* currentList come from lines after those of every block already pushed.
C1_BlocksInLineOrder ==
    /\ Len(origin) = Len(blocks)
    /\ \A k, m \in DOMAIN blocks : k < m => origin[k] < origin[m]
    /\ \A k \in DOMAIN blocks : parseMarkdown(lines[origin[k]]) = <<blocks[k]>>
    /\ pc = "loop" /\ isInList =>
         \A k \in DOMAIN origin, j \in DOMAIN pendingOrigin :
             origin[k] < pendingOrigin[j]

\* C1 witness: list items, pushed only when the heading after them is read,
\* stand before the heading's block.
C1_Witness ==
    /\ pc = "returned"
    /\ Len(blocks) >= 3
    /\ blocks[1].type = "bulleted_list_item"
    /\ blocks[2].type = "bulleted_list_item"
    /\ blocks[3].type = "heading_1"
    /\ origin = <<1, 2, 3>>

\* The part of C2 that is about the list lines: each list line has exactly
\* one block, the list item of its kind holding the tokenized remainder of
\* the line, right after the item of the line before it when that is a list
\* line of the same kind.
ListLinesGiveSiblings ==
    \A n \in DOMAIN lines :
        IsListLine(LineAt(n)) =>
            /\ Cardinality(PlacesOf(n)) = 1
            /\ blocks[PlaceOf(n)] = ListItemOf(LineAt(n))
            /\ (n > 1 /\ SameListKind(LineAt(n - 1), LineAt(n))) =>
                   PlacesOf(n) = {PlaceOf(n - 1) + 1}

\* C2 as stated: N consecutive list lines of one kind give N sibling list
\* items of that kind, in order, each with the tokenized remainder of its
\* line, none emitted twice; a non-list line after them gives its own block,
\* right after them.
C2_AsStated ==
    pc = "returned" =>
        /\ ListLinesGiveSiblings
        /\ \A n \in DOMAIN lines :
             (n < Len(lines) /\ IsListLine(LineAt(n)) /\ ~IsListLine(LineAt(n + 1))) =>
                 PlacesOf(n + 1) = {PlaceOf(n) + 1}

\* C2 amended: as stated, but the non-list line after the list gives no
\* block when it is an image or link line its pattern does not match.
C2_ListRunGivesSiblings ==
    pc = "returned" =>
        /\ ListLinesGiveSiblings
        /\ \A n \in DOMAIN lines :
             (n < Len(lines) /\ IsListLine(LineAt(n)) /\ ~IsListLine(LineAt(n + 1))) =>
                 PlacesOf(n + 1) = IF IsDropped(LineAt(n + 1)) THEN {}
                                   ELSE {PlaceOf(n) + 1}

\* C2 witness: three bullet lines and a paragraph give three bullet items and
\* then the paragraph.
C2_Witness ==
    /\ pc = "returned"
    /\ Len(lines) = 4
    /\ \A n \in 1..3 : IsBulletLine(LineAt(n))
    /\ [k \in DOMAIN blocks |-> blocks[k].type]
         = <<"bulleted_list_item", "bulleted_list_item", "bulleted_list_item",
             "paragraph">>

\* The rules of the classification, in their order, each with the type of
\* the blocks it makes.
RuleOrder ==
    << "heading_1", "heading_2", "heading_3", "bulleted_list_item",
       "numbered_list_item", "code", "quote", "image", "bookmark", "paragraph" >>

\* The pattern of each rule.
RuleMatches(rule, l) ==
    CASE rule = "heading_1" -> startsWith(l, <<"#", " ">>)
      [] rule = "heading_2" -> startsWith(l, <<"#", "#", " ">>)
      [] rule = "heading_3" -> startsWith(l, <<"#", "#", "#", " ">>)
      [] rule = "bulleted_list_item" -> IsBulletLine(l)
      [] rule = "numbered_list_item" -> IsNumberLine(l)
      [] rule = "code" -> l # <<>> /\ l[1] = Backtick
      [] rule = "quote" -> startsWith(l, <<">", " ">>)
      [] rule = "image" ->
            /\ startsWith(l, <<"!", "[">>)
            /\ \E k \in 1..(Len(l) - 1) : l[k] = "]" /\ l[k + 1] = "("
            /\ l[Len(l)] = ")"
      [] rule = "bookmark" ->
            /\ startsWith(l, <<"[">>)
            /\ \E k \in 1..(Len(l) - 1) : l[k] = "]" /\ l[k + 1] = "("
            /\ l[Len(l)] = ")"
      [] rule = "paragraph" -> TRUE

\* The first rule, in the order, whose pattern the line matches.
FirstRule(l) ==
    RuleOrder[CHOOSE i \in DOMAIN RuleOrder :
                 /\ RuleMatches(RuleOrder[i], l)
                 /\ \A j \in 1..(i - 1) : ~RuleMatches(RuleOrder[j], l)]

\* C3: every block made from a line has the type of the first rule, in the
\* fixed order, whose pattern the line matches; a line gives no block of a
\* later rule, and gives no block at all only as an image or link line its
\* regular expression does not match.
C3_FirstMatchingRuleDecidesKind ==
    pc = "returned" =>
        \A n \in DOMAIN lines :
            LineAt(n) # <<>> =>
                /\ \A k \in PlacesOf(n) : blocks[k].type = FirstRule(LineAt(n))
                /\ PlacesOf(n) = {} =>
                       /\ FirstRule(LineAt(n)) \in {"image", "bookmark"}
                       /\ IsDropped(LineAt(n))

\* C3 witness: a line that starts with a backtick and holds an inline code
\* run is a code block.
C3_Witness ==
    /\ pc = "returned"
    /\ lines = << <<Backtick, "a", Backtick, "a">> >>
    /\ Len(blocks) = 1
    /\ blocks[1].type = "code"

\* The position (0-based) of the first "](" of a link line, of the ")" that
\* closes its url, and the two texts the claim names.
LinkMiddle(l) == CHOOSE q \in 0..Len(l) :
                    /\ SubSeq(l, q + 1, q + 2) = <<"]", "(">>
                    /\ \A r \in 0..(q - 1) : SubSeq(l, r + 1, r + 2) # <<"]", "(">>

LinkClose(l) == CHOOSE r \in (LinkMiddle(l) + 2)..Len(l) :
                    /\ l[r + 1] = ")"
                    /\ \A j \in (LinkMiddle(l) + 2)..(r - 1) : l[j + 1] # ")"

LinkCaption(l) == SubSeq(l, 2, LinkMiddle(l))

LinkUrl(l) == SubSeq(l, LinkMiddle(l) + 3, LinkClose(l))

\* The bookmark block the claim describes for a link line.
BookmarkOf(l) ==
    [object |-> "block", type |-> "bookmark",
     bookmark |-> [url |-> LinkUrl(l),
                   caption |-> IF LinkCaption(l) = <<>> THEN <<>>
                               ELSE parseInlineStyles(LinkCaption(l))]]

\* A line terminator between the leading "[" and the ")" that closes the url.
LinkHoldsTerminator(l) ==
    \E k \in 2..LinkClose(l) : l[k] \in LineTerminators

\* C9 as stated: every line that starts with "[", holds "](" and ends with
\* ")" gives exactly one block, the bookmark of its url and caption.
C9_AsStated ==
    pc = "returned" =>
        \A n \in DOMAIN lines :
            RuleMatches("bookmark", LineAt(n)) =>
                /\ Cardinality(PlacesOf(n)) = 1
                /\ blocks[PlaceOf(n)] = BookmarkOf(LineAt(n))

\* C9 amended: such a line gives exactly that one bookmark block when no
\* line terminator stands between its leading "[" and the ")" closing the
\* url; with one there it gives no block or one bookmark block, matched from
\* a later "[".
C9_LinkLineGivesBookmark ==
    pc = "returned" =>
        \A n \in DOMAIN lines :
            RuleMatches("bookmark", LineAt(n)) =>
                IF LinkHoldsTerminator(LineAt(n))
                THEN /\ Cardinality(PlacesOf(n)) <= 1
                     /\ \A k \in PlacesOf(n) : blocks[k].type = "bookmark"
                ELSE /\ Cardinality(PlacesOf(n)) = 1
                     /\ blocks[PlaceOf(n)] = BookmarkOf(LineAt(n))

\* C9 witness: [a](a) is the bookmark of url a with the caption a tokenized.
C9_Witness ==
    /\ pc = "returned"
    /\ lines = << <<"[", "a", "]", "(", "a", ")">> >>
    /\ blocks = << [object |-> "block", type |-> "bookmark",
                    bookmark |-> [url |-> <<"a">>,
                                  caption |-> <<RunWith(<<"a">>, {})>>]] >>

\* C10: every line that starts with a backtick gives exactly one code block:
\* one run, no annotation set, holding the line without its first and its
\* last character as it stands, and the language "javascript".
C10_BacktickLineGivesCodeBlock ==
    pc = "returned" =>
        \A n \in DOMAIN lines :
            (LineAt(n) # <<>> /\ LineAt(n)[1] = Backtick) =>
                /\ Cardinality(PlacesOf(n)) = 1
                /\ blocks[PlaceOf(n)]
                     = [object |-> "block", type |-> "code",
                        code |-> [rich_text |->
                                     <<RunWith(SubSeq(LineAt(n), 2, Len(LineAt(n)) - 1), {})>>,
                                  language |-> "javascript"]]

\* C10 witness: the code of a line that is two backticks, a, a backtick and
\* a is a backtick, a and a backtick, one plain run.
C10_Witness ==
    /\ pc = "returned"
    /\ lines = << <<Backtick, Backtick, "a", Backtick, "a">> >>
    /\ Len(blocks) = 1
    /\ blocks[1].code.rich_text = <<RunWith(<<Backtick, "a", Backtick>>, {})>>


\* C8: the blocks of a document are those of the document it was before
\* empty and white-space-only lines were inserted, line feeds were turned
\* into carriage return and line feed, and white space was added around its
\* lines.
C8_BlankLinesAndWhiteSpaceIgnored ==
    pc = "returned" => blocks = parseMarkdown(original)

\* C8 witness: two bullet lines, the second now after a white-space-only
\* line that ends in a carriage return and a line feed, are still two
\* sibling bullet items.
C8_Witness ==
    /\ pc = "returned"
    /\ original = <<"-", " ", "a", LF, "*", " ", "b">>
    /\ markdown = <<"-", " ", "a", LF, " ", CR, LF, "*", " ", "b">>
    /\ [k \in DOMAIN blocks |-> blocks[k].type]
         = <<"bulleted_list_item", "bulleted_list_item">>

(***************************************************************************)
(* Properties of main.                                                     *)
(***************************************************************************)
\* The request names a method (an empty string names none) and it is not
\* POST in any spelling.
HasNonPostMethod(a) ==
    /\ a.__ow_method.kind = "string"
    /\ a.__ow_method.value # <<>>
    /\ LET m == a.__ow_method.value
       IN  ~ /\ Len(m) = 4
             /\ m[1] \in {"p", "P"}
             /\ m[2] \in {"o", "O"}
             /\ m[3] \in {"s", "S"}
             /\ m[4] \in {"t", "T"}

\* The request has a content-type header with a value (an empty string is
\* none) in which application/json does not occur.
HasNonJsonContentType(a) ==
    /\ a.__ow_headers.kind = "object"
    /\ "content-type" \in DOMAIN a.__ow_headers.fields
    /\ LET c == a.__ow_headers.fields["content-type"].value
       IN  /\ c # <<>>
           /\ \A k \in 1..(Len(c) - Len(ApplicationJson) + 1) :
                 SubSeq(c, k, k + Len(ApplicationJson) - 1) # ApplicationJson

\* md is missing or the empty string.
HasNoMarkdown(a) == a.md = Undefined \/ a.md = String(<<>>)

\* The response is a rejection of the given status: an error and no
\* children in its body, and parseMarkdown was not called.
RejectedWith(status) ==
    /\ response.statusCode = status
    /\ "error" \in DOMAIN response.body
    /\ "children" \notin DOMAIN response.body
    /\ converterCalls = 0

TerminatorFree(l, a, b) == \A k \in a..b : l[k] \notin LineTerminators

\* l holds a "(" and a ")" after it with no line terminator in between.
HasParenthesized(l) ==
    \E p, q \in DOMAIN l :
        /\ p < q
        /\ l[p] = "("
        /\ l[q] = ")"
        /\ TerminatorFree(l, p + 1, q - 1)

\* l holds a "[", a "](" after it and a ")" after that, with no line
\* terminator in the caption nor in the url.
HasLink(l) ==
    \E b, q, r \in DOMAIN l :
        /\ b < q
        /\ q + 1 < r
        /\ l[b] = "["
        /\ l[q] = "]"
        /\ l[q + 1] = "("
        /\ l[r] = ")"
        /\ TerminatorFree(l, b + 1, q - 1)
        /\ TerminatorFree(l, q + 2, r - 1)

\* l passes the image guard.
PassesImageGuard(l) ==
    /\ Len(l) >= 2
    /\ SubSeq(l, 1, 2) = <<"!", "[">>
    /\ \E k \in 1..(Len(l) - 1) : l[k] = "]" /\ l[k + 1] = "("
    /\ l[Len(l)] = ")"

\* l passes the bookmark guard.
PassesBookmarkGuard(l) ==
    /\ Len(l) >= 1
    /\ l[1] = "["
    /\ \E k \in 1..(Len(l) - 1) : l[k] = "]" /\ l[k + 1] = "("
    /\ l[Len(l)] = ")"

\* A trimmed line that passes the guard of the image or of the bookmark
\* branch and that the regular expression of the branch does not match.
IsSkipped(l) ==
    \/ PassesImageGuard(l) /\ ~HasParenthesized(l)
    \/ PassesBookmarkGuard(l) /\ ~HasLink(l)

\* The lines of the document, trimmed, that are not empty.
NonEmptyLines == SelectSeq([k \in DOMAIN split(markdown) |-> trim(split(markdown)[k])],
                           LAMBDA l : l # <<>>)

\* C12 as stated: parseMarkdown returns as many blocks as the document has
\* lines that are non-empty after trimming (no line is dropped).
C12_AsStated ==
    pc = "returned" => Len(blocks) = Len(NonEmptyLines)

\* C12, amended: parseMarkdown returns as many blocks as the document has
\* lines that are non-empty after trimming and not skipped, one block for
\* each of them and none for a skipped line: an image or link line in
\* which a line terminator keeps the regular expression from matching.
C12_BlockCountIsLinesKept ==
    pc = "returned" =>
        /\ Len(blocks) = Len(SelectSeq(NonEmptyLines, LAMBDA l : ~IsSkipped(l)))
        /\ \A n \in DOMAIN lines :
              Cardinality(PlacesOf(n)) =
                  IF trim(lines[n]) = <<>> \/ IsSkipped(trim(lines[n])) THEN 0 ELSE 1

\* C12 witness: of the lines of a document, one has been skipped and the
\* others have their blocks.
C12_Witness ==
    /\ pc = "returned"
    /\ \E n \in DOMAIN NonEmptyLines : IsSkipped(NonEmptyLines[n])
    /\ Len(blocks) >= 2
    /\ Len(blocks) = Len(NonEmptyLines) - 1

\* The kind of list a list line belongs to.
ListKindOf(l) == IF IsBulletLine(l) THEN "bulletList" ELSE "numberList"

\* The type of the blocks a list of the given kind is made of.
ItemTypeOf(kind) ==
    IF kind = "bulletList" THEN "bulleted_list_item" ELSE "numbered_list_item"

\* The accumulator after the lines before lineNo: a list is open exactly
\* when currentList holds something, and then listType is one of the two
\* list kinds and currentList holds, in order, the remainders of the lines
\* just read, back from the last one, all list lines of that kind.
AccumulatorConsistent ==
    /\ ~isInList <=> currentList = <<>>
    /\ isInList =>
          /\ listType \in {"bulletList", "numberList"}
          /\ Len(pendingOrigin) = Len(currentList)
          /\ \A k \in DOMAIN currentList :
                LET n == (lineNo - 1) - (Len(currentList) - k)
                IN  /\ pendingOrigin[k] = n
                    /\ n \in DOMAIN lines
                    /\ IsListLine(LineAt(n))
                    /\ ListKindOf(LineAt(n)) = listType
                    /\ currentList[k] = Remainder(LineAt(n))

\* After the final flush the items of the list still open are the last
\* blocks, of the type of the list; every list line of the document has
\* its one block, of its own kind.
FlushedInFull ==
    /\ isInList =>
          /\ Len(blocks) >= Len(currentList)
          /\ \A k \in DOMAIN currentList :
                LET b == Len(blocks) - Len(currentList) + k
                IN  /\ origin[b] = pendingOrigin[k]
                    /\ blocks[b].type = ItemTypeOf(listType)
                    /\ blocks[b] = ListItemOf(LineAt(pendingOrigin[k]))
    /\ \A n \in DOMAIN lines :
          IsListLine(LineAt(n)) =>
              /\ Cardinality(PlacesOf(n)) = 1
              /\ blocks[PlaceOf(n)].type = ItemTypeOf(ListKindOf(LineAt(n)))

\* The step after the loop pushes one block of the type of the list for
\* each item of the open list, and nothing when no list is open.
FinalFlushPushesOpenList ==
    /\ Len(blocks') = Len(blocks) + (IF isInList THEN Len(currentList) ELSE 0)
    /\ SubSeq(blocks', 1, Len(blocks)) = blocks
    /\ \A k \in (Len(blocks) + 1)..Len(blocks') :
          blocks'[k].type = ItemTypeOf(listType)

\* C14: after every line of the loop the list accumulator is consistent
\* (no open list exactly when currentList is empty; an open list has one of
\* the two list types and holds the items of the list lines of that type
\* that end at the current line), so the final flush pushes the open list
\* exactly when one is open, and no item is lost or pushed under the other
\* list type.
C14_AccumulatorConsistent ==
    /\ [](pc = "loop" => AccumulatorConsistent)
    /\ [](pc = "returned" => FlushedInFull)
    /\ [][(pc = "loop" /\ pc' = "returned") => FinalFlushPushesOpenList]_vars

\* C14 witness: two numbered items are waiting on currentList after a
\* bullet list was flushed for them.
C14_Witness ==
    /\ pc = "loop"
    /\ isInList
    /\ listType = "numberList"
    /\ Len(currentList) = 2
    /\ Len(blocks) >= 1
    /\ blocks[Len(blocks)].type = "bulleted_list_item"

\* The types of the blocks the branches of the loop make.
ReturnedTypes ==
    { "heading_1", "heading_2", "heading_3", "paragraph", "bulleted_list_item",
      "numbered_list_item", "image", "bookmark", "code", "quote" }

\* C15: every block of parseMarkdown has one of the ten types heading_1,
\* heading_2, heading_3, paragraph, bulleted_list_item, numbered_list_item,
\* image, bookmark, code and quote, never divider nor video; a line of
\* three hyphens gives a paragraph holding the three hyphens.
C15_NoDividerNoVideo ==
    /\ \A k \in DOMAIN blocks :
          /\ blocks[k].type \in ReturnedTypes
          /\ blocks[k].type \notin {createDivider.type, createVideo(<<>>).type}
    /\ (pc = "returned" /\ trim(markdown) = <<"-", "-", "-">>) =>
          /\ Len(blocks) = 1
          /\ blocks[1].type = "paragraph"
          /\ blocks[1].paragraph.rich_text = <<RunWith(<<"-", "-", "-">>, {})>>

\* C15 witness: parseMarkdown has returned for a line of three hyphens.
C15_Witness ==
    /\ pc = "returned"
    /\ markdown = <<"-", "-", "-">>
    /\ Len(blocks) = 1

(***************************************************************************)
(* More properties of parseInlineStyles.                                   *)
(***************************************************************************)
\* The characters of the texts that are no marker characters.
OrdinaryChars == InlineChars \ MarkerChars

\* C13: no run has underline set: wherever the text holds two underscores
\* in a row the italic test succeeds, so the underline branch, which comes
\* after it, is never taken; and two underscores, an ordinary character and
\* two underscores give an italic run with no text, a plain run with the
\* character and another italic run with no text.
C13_UnderlineNeverSet ==
    pc = "returned" =>
        /\ \A k \in DOMAIN segments : ~segments[k].annotations.underline
        /\ \A i \in 0..(Len(text) - 2) :
              (text[i + 1] = "_" /\ text[i + 2] = "_") => italicAt(text, i)
        /\ \A c \in OrdinaryChars :
              text = <<"_", "_", c, "_", "_">> =>
                  segments = << RunWith(<<>>, {"italic"}),
                                RunWith(<<c>>, {}),
                                RunWith(<<>>, {"italic"}) >>

\* C13 witness: a text between double underscores has been tokenized.
C13_Witness ==
    /\ pc = "returned"
    /\ text = <<"_", "_", "a", "_", "_">>
    /\ Len(segments) = 3
    /\ segments[1].annotations.italic

====
